-------------------------- MODULE Spec2Model --------------------------
(***************************************************************************)
(* Model of the conference schedule service (src/main.py): a schedule of   *)
(* days holding events, kept as one JSON document that every request loads *)
(* and rewrites in full, with one attachment directory per event id.       *)
(*                                                                         *)
(* A Python str is a sequence of one-character strings, so that the id     *)
(* generators and the path handling are computed character by character.   *)
(* A falsy optional str (None or "") is the empty sequence: the handlers   *)
(* only test such values for truth.                                        *)
(***************************************************************************)
EXTENDS Integers, Sequences, FiniteSets, TLC

VARIABLES file, dirs, lastOp, resp, pc, req, loaded, result, lastWriter, ret

vars == <<file, dirs, lastOp, resp, pc, req, loaded, result, lastWriter, ret>>

(***************************************************************************)
(* Bounds of the model.                                                    *)
(***************************************************************************)
\* add_day is offered while the schedule holds fewer days than this.
MaxDays == 2
\* add_event and upload_event_with_file are offered while the day holds
\* fewer events than this.
MaxEvents == 2
\* requests in flight at once in the concurrent specification
NumProcs == 2

(***************************************************************************)
(* Characters and the regular expressions of the id generators.            *)
(***************************************************************************)
UpperSeq == <<"A", "B", "C", "D", "E", "F", "G", "H", "I", "J", "K", "L", "M", "N", "O", "P", "Q", "R", "S", "T", "U", "V", "W", "X", "Y", "Z">>
LowerSeq == <<"a", "b", "c", "d", "e", "f", "g", "h", "i", "j", "k", "l", "m", "n", "o", "p", "q", "r", "s", "t", "u", "v", "w", "x", "y", "z">>
Digits == {"0", "1", "2", "3", "4", "5", "6", "7", "8", "9"}
NL == "\n"

Range(s) == {s[i] : i \in DOMAIN s}

\* [a-zA-Z0-9]
IsAlnum(c) == c \in Range(UpperSeq) \cup Range(LowerSeq) \cup Digits

\* str.lower() on one character
LowerChar(c) ==
    IF c \in Range(UpperSeq)
    THEN LowerSeq[CHOOSE i \in DOMAIN UpperSeq : UpperSeq[i] = c]
    ELSE c

lower(s) == [i \in DOMAIN s |-> LowerChar(s[i])]

\* re.sub(r'[^a-zA-Z0-9]', '', s)
RECURSIVE StripNonAlnum(_)
StripNonAlnum(s) ==
    IF s = <<>> THEN <<>>
    ELSE (IF IsAlnum(Head(s)) THEN <<Head(s)>> ELSE <<>>) \o StripNonAlnum(Tail(s))

\* the longest run of digits that ends s
RECURSIVE DigitSuffix(_)
DigitSuffix(s) ==
    IF s = <<>> \/ s[Len(s)] \notin Digits THEN <<>>
    ELSE DigitSuffix(SubSeq(s, 1, Len(s) - 1)) \o <<s[Len(s)]>>

\* re.search(r'(\d+)$', s): group 1 of the leftmost match, <<>> when there is
\* none.  $ matches at the end of s and also just before a final newline.
TrailingDigits(s) ==
    IF s # <<>> /\ s[Len(s)] = NL
    THEN DigitSuffix(SubSeq(s, 1, Len(s) - 1))
    ELSE DigitSuffix(s)

generate_day_id(day_str) ==
    IF TrailingDigits(day_str) # <<>>
    THEN TrailingDigits(day_str)
    ELSE lower(StripNonAlnum(day_str))

\* re.sub(r'[^a-zA-Z0-9]', '-', s)
HyphenateNonAlnum(s) == [i \in DOMAIN s |-> IF IsAlnum(s[i]) THEN s[i] ELSE "-"]

\* re.sub(r'-+', '-', s)
RECURSIVE CollapseHyphens(_)
CollapseHyphens(s) ==
    IF Len(s) < 2 THEN s
    ELSE IF s[1] = "-" /\ s[2] = "-" THEN CollapseHyphens(Tail(s))
    ELSE <<s[1]>> \o CollapseHyphens(Tail(s))

\* s.strip('-')
RECURSIVE StripHyphens(_)
StripHyphens(s) ==
    IF s = <<>> THEN s
    ELSE IF s[1] = "-" THEN StripHyphens(Tail(s))
    ELSE IF s[Len(s)] = "-" THEN StripHyphens(SubSeq(s, 1, Len(s) - 1))
    ELSE s

event_slug(event_name) ==
    StripHyphens(CollapseHyphens(HyphenateNonAlnum(lower(event_name))))

generate_event_id(day_id, event_name) == day_id \o <<"-">> \o event_slug(event_name)

(***************************************************************************)
(* The schedule store.  The backing file is [kind, content]:               *)
(*   missing      no file at SCHEDULE_FILE                                 *)
(*   unreadable   the file exists and open() raises OSError                *)
(*   undecodable  bytes that are not text in the locale's encoding         *)
(*   empty        no bytes                                                 *)
(*   malformed    text that is not JSON                                    *)
(*   nonlist      a JSON document that is not a list (an object, null ...)  *)
(*   list         a JSON list: content is the sequence of Day records      *)
(***************************************************************************)
FileOf(kind, content) == [kind |-> kind, content |-> content]

initialize_data_file(f) ==
    IF f.kind = "missing" THEN FileOf("list", <<>>) ELSE f

\* What read_schedule() gives: raised (an exception other than
\* json.JSONDecodeError leaves the function), else the value json.load
\* returned or the [] of the except branch; isList tells a list from the
\* other JSON values.
read_schedule(f) ==
    LET g == initialize_data_file(f) IN
    CASE g.kind = "unreadable"  -> [raised |-> TRUE,  isList |-> FALSE, value |-> <<>>]
      [] g.kind = "undecodable" -> [raised |-> TRUE,  isList |-> FALSE, value |-> <<>>]
      [] g.kind = "empty"       -> [raised |-> FALSE, isList |-> TRUE,  value |-> <<>>]
      [] g.kind = "malformed"   -> [raised |-> FALSE, isList |-> TRUE,  value |-> <<>>]
      [] g.kind = "nonlist"     -> [raised |-> FALSE, isList |-> FALSE, value |-> g.content]
      [] OTHER                  -> [raised |-> FALSE, isList |-> TRUE,  value |-> g.content]

write_schedule(schedule) == FileOf("list", schedule)

\* The schedule a reader of the store f sees.
ScheduleIn(f) == read_schedule(f).value

Persisted == ScheduleIn(file)

(***************************************************************************)
(* Attachment storage: dirs maps the name of each directory under          *)
(* UPLOADS_DIR to the set of file names in it.                             *)
(***************************************************************************)
UPLOADS == <<"u", "p", "l", "o", "a", "d", "s">>

DirExists(d, id) == id \in DOMAIN d

\* os.makedirs(dir, exist_ok=True) and writing one file into it
SaveFile(d, id, filename) ==
    (id :> ((IF DirExists(d, id) THEN d[id] ELSE {}) \cup {filename})) @@ d

\* shutil.rmtree(dir) when the directory exists
RemoveDir(d, id) == [k \in DOMAIN d \ {id} |-> d[k]]

\* the move with the old directory left in place
MoveDir_KeepsOld(d, old, new) ==
    (new :> (d[old] \cup (IF DirExists(d, new) THEN d[new] ELSE {}))) @@ d

\* update_event's move: makedirs(new), every file of old moved into new,
\* rmdir(old) (old is empty by then)
MoveDir(d, old, new) ==
    LET files == d[old] \cup (IF DirExists(d, new) THEN d[new] ELSE {})
    IN  [k \in (DOMAIN d \ {old}) \cup {new} |-> IF k = new THEN files ELSE d[k]]

\* f"/uploads/{event_id}/{filename}"
OutlinePath(event_id, filename) ==
    <<"/">> \o UPLOADS \o <<"/">> \o event_id \o <<"/">> \o filename

\* path.split("/")[-1]
RECURSIVE LastSegment(_)
LastSegment(path) ==
    IF path = <<>> \/ path[Len(path)] = "/" THEN <<>>
    ELSE LastSegment(SubSeq(path, 1, Len(path) - 1)) \o <<path[Len(path)]>>

(***************************************************************************)
(* Records.  A dict is a function on its keys, so that a key the code      *)
(* leaves out is absent from the domain.                                   *)
(***************************************************************************)
Has(e, k) == k \in DOMAIN e

Put(e, k, v) == (k :> v) @@ e

DayRecord(id, day, date, events) ==
    [id |-> id, day |-> day, date |-> date, events |-> events]

\* index of the first day with this id, 0 when there is none
FindDay(schedule, day_id) ==
    IF \E i \in DOMAIN schedule : schedule[i].id = day_id
    THEN CHOOSE i \in DOMAIN schedule :
             /\ schedule[i].id = day_id
             /\ \A j \in 1..(i - 1) : schedule[j].id # day_id
    ELSE 0

\* index of the first event with this id, 0 when there is none
FindEvent(events, event_id) ==
    IF \E i \in DOMAIN events : events[i].id = event_id
    THEN CHOOSE i \in DOMAIN events :
             /\ events[i].id = event_id
             /\ \A j \in 1..(i - 1) : events[j].id # event_id
    ELSE 0

RemoveAt(seq, i) == SubSeq(seq, 1, i - 1) \o SubSeq(seq, i + 1, Len(seq))

\* the outcome of a handler: the HTTP status class, the schedule it holds
\* in memory and the attachment directories when it ends
Outcome(status, schedule, d) == [status |-> status, schedule |-> schedule, dirs |-> d]

(***************************************************************************)
(* The handlers, as functions of the schedule they loaded and of the       *)
(* attachment directories.  status is "ok" (200), "Conflict" (400),        *)
(* "NotFound" (404) or "Error" (500).                                      *)
(***************************************************************************)
\* add_day with the new day put first
add_day_core_Prepends(schedule, d, day, date) ==
    IF \E i \in DOMAIN schedule : schedule[i].day = day \/ schedule[i].date = date
    THEN Outcome("Conflict", schedule, d)
    ELSE Outcome("ok",
                 <<DayRecord(generate_day_id(day), day, date, <<>>)>> \o schedule,
                 d)

\* add_day with the date left out of the duplicate check
add_day_core_LabelOnly(schedule, d, day, date) ==
    IF \E i \in DOMAIN schedule : schedule[i].day = day
    THEN Outcome("Conflict", schedule, d)
    ELSE Outcome("ok",
                 Append(schedule, DayRecord(generate_day_id(day), day, date, <<>>)),
                 d)

add_day_core(schedule, d, day, date) ==
    IF \E i \in DOMAIN schedule : schedule[i].day = day \/ schedule[i].date = date
    THEN Outcome("Conflict", schedule, d)
    ELSE Outcome("ok",
                 Append(schedule, DayRecord(generate_day_id(day), day, date, <<>>)),
                 d)

\* the event dict add_event and upload_event_with_file start from
NewEvent(event_id, time, name, link) ==
    LET base == [id |-> event_id, time |-> time, name |-> name]
    IN  IF link # <<>> THEN Put(base, "link", link) ELSE base

NameUsed(events, name) == \E i \in DOMAIN events : events[i].name = name

WithEvents(schedule, di, events) == [schedule EXCEPT ![di].events = events]

add_event_core(schedule, d, day_id, time, name, link, hasOutline) ==
    LET di == FindDay(schedule, day_id) IN
    IF di = 0 THEN Outcome("NotFound", schedule, d)
    ELSE IF NameUsed(schedule[di].events, name) THEN Outcome("Conflict", schedule, d)
    ELSE
      LET event_id == generate_event_id(schedule[di].id, name)
          e1 == NewEvent(event_id, time, name, link)
          event_dict == IF hasOutline THEN Put(e1, "hasOutline", TRUE) ELSE e1
      IN  Outcome("ok", WithEvents(schedule, di, Append(schedule[di].events, event_dict)), d)

\* upload is <<>> when the form carries no file, else the file's name
upload_event_with_file_core(schedule, d, day_id, time, name, link, hasOutline, upload) ==
    LET di == FindDay(schedule, day_id) IN
    IF di = 0 THEN Outcome("NotFound", schedule, d)
    ELSE IF NameUsed(schedule[di].events, name) THEN Outcome("Conflict", schedule, d)
    ELSE
      LET event_id == generate_event_id(schedule[di].id, name)
          e1 == NewEvent(event_id, time, name, link)
          stored == upload # <<>> /\ hasOutline
          event_dict ==
              IF stored
              THEN Put(Put(e1, "hasOutline", TRUE),
                       "outlineFile", OutlinePath(event_id, upload))
              ELSE IF hasOutline THEN Put(e1, "hasOutline", TRUE)
              ELSE e1
      IN  Outcome("ok",
                  WithEvents(schedule, di, Append(schedule[di].events, event_dict)),
                  IF stored THEN SaveFile(d, event_id, upload) ELSE d)

\* update_event with the check of the new name left out
RenameConflict_Unchecked(events, existing, name) == FALSE

\* lines 282-289: the new name is taken by another event of the day
RenameConflict(events, existing, name) ==
    /\ existing.name # name
    /\ \E i \in DOMAIN events : events[i].name = name /\ events[i] # existing

\* update_event keeping the id of the request whatever the name
UpdatedEvent_KeepsId(day_id, existing, event_id, time, name, link, hasOutline, outlineFile) ==
    LET e1 == NewEvent(event_id, time, name, link)
        e2 == IF hasOutline THEN Put(e1, "hasOutline", TRUE) ELSE e1
        e3 == IF Has(existing, "outlineFile") /\ hasOutline
              THEN Put(e2, "outlineFile", existing.outlineFile) ELSE e2
    IN  IF outlineFile # <<>> THEN Put(e3, "outlineFile", outlineFile) ELSE e3

\* lines 291-315: the dict that replaces the event
UpdatedEvent(day_id, existing, event_id, time, name, link, hasOutline, outlineFile) ==
    LET new_event_id ==
            IF existing.name # name THEN generate_event_id(day_id, name) ELSE event_id
        e1 == NewEvent(new_event_id, time, name, link)
        e2 == IF hasOutline THEN Put(e1, "hasOutline", TRUE) ELSE e1
        e3 == IF Has(existing, "outlineFile") /\ hasOutline
              THEN Put(e2, "outlineFile", existing.outlineFile) ELSE e2
    IN  IF outlineFile # <<>> THEN Put(e3, "outlineFile", outlineFile) ELSE e3

\* lines 320-343: the attachment directory follows the new id
MovesFiles(d, event_id, event_dict) ==
    /\ event_dict.id # event_id
    /\ Has(event_dict, "outlineFile")
    /\ DirExists(d, event_id)

update_event_core(schedule, d, day_id, event_id, time, name, link, hasOutline, outlineFile) ==
    LET di == FindDay(schedule, day_id) IN
    IF di = 0 THEN Outcome("NotFound", schedule, d)
    ELSE
      LET events == schedule[di].events
          ei == FindEvent(events, event_id)
      IN
      IF ei = 0 THEN Outcome("NotFound", schedule, d)
      ELSE IF RenameConflict(events, events[ei], name) THEN Outcome("Conflict", schedule, d)
      ELSE
        LET event_dict == UpdatedEvent(schedule[di].id, events[ei], event_id,
                                       time, name, link, hasOutline, outlineFile)
            moved == MovesFiles(d, event_id, event_dict)
            final ==
                IF moved /\ event_dict.outlineFile # <<>>
                THEN Put(event_dict, "outlineFile",
                         OutlinePath(event_dict.id, LastSegment(event_dict.outlineFile)))
                ELSE event_dict
        IN  Outcome("ok",
                    WithEvents(schedule, di, [events EXCEPT ![ei] = final]),
                    IF moved THEN MoveDir(d, event_id, event_dict.id) ELSE d)

\* the HTTPException(404) raised inside the try block is caught by
\* "except Exception" and raised again as HTTPException(500) (lines 409-411)
upload_outline_core(schedule, d, day_id, event_id, upload) ==
    LET di == FindDay(schedule, day_id) IN
    IF di = 0 THEN Outcome("Error", schedule, d)
    ELSE
      LET events == schedule[di].events
          ei == FindEvent(events, event_id)
      IN
      IF ei = 0 THEN Outcome("Error", schedule, d)
      ELSE
        LET event == Put(Put(events[ei], "hasOutline", TRUE),
                         "outlineFile", OutlinePath(event_id, upload))
        IN  Outcome("ok",
                    WithEvents(schedule, di, [events EXCEPT ![ei] = event]),
                    SaveFile(d, event_id, upload))

delete_event_core(schedule, d, day_id, event_id) ==
    LET di == FindDay(schedule, day_id) IN
    IF di = 0 THEN Outcome("NotFound", schedule, d)
    ELSE
      LET events == schedule[di].events
          ei == FindEvent(events, event_id)
      IN
      IF ei = 0 THEN Outcome("NotFound", schedule, d)
      ELSE Outcome("ok", WithEvents(schedule, di, RemoveAt(events, ei)),
                   RemoveDir(d, event_id))

\* delete_day without the removal of the attachment directories
delete_day_core_KeepsDirs(schedule, d, day_id) ==
    IF FindDay(schedule, day_id) = 0 THEN Outcome("NotFound", schedule, d)
    ELSE Outcome("ok", RemoveAt(schedule, FindDay(schedule, day_id)), d)

EventIds(events) == {events[i].id : i \in DOMAIN events}

delete_day_core(schedule, d, day_id) ==
    LET di == FindDay(schedule, day_id) IN
    IF di = 0 THEN Outcome("NotFound", schedule, d)
    ELSE Outcome("ok", RemoveAt(schedule, di),
                 [k \in DOMAIN d \ EventIds(schedule[di].events) |-> d[k]])

(***************************************************************************)
(* initialize_schedule: the sample data (lines 481-531) and the ids it is   *)
(* given (lines 533-560).  link is <<>> and hasOutline FALSE where the      *)
(* sample leaves the key out.                                              *)
(***************************************************************************)
SampleEvent(time, name, link, hasOutline) ==
    [time |-> time, name |-> name, link |-> link, hasOutline |-> hasOutline]

sample_days == <<
    [day |-> <<"D", "a", "y", " ", "1">>,
     date |-> <<"W", "E", "D", "N", "E", "S", "D", "A", "Y", ",", " ", "2", "7", "T", "H", " ", "D", "E", "C", "E", "M", "B", "E", "R", " ", "2", "0", "2", "3">>,
     events |-> <<
         SampleEvent(<<"1", "2", ":", "0", "0", "p", "m", " ", "-", " ", "4", ":", "0", "0", "p", "m", " ", "(", "G", "M", "T", " ", "+", "1", ")">>,
                     <<"A", "r", "r", "i", "v", "a", "l", " ", "o", "f", " ", "P", "a", "r", "t", "i", "c", "i", "p", "a", "n", "t", "s">>,
                     <<>>,
                     FALSE),
         SampleEvent(<<"7", ":", "3", "0", "p", "m", " ", "-", " ", "1", "0", ":", "3", "0", "p", "m", " ", "(", "G", "M", "T", " ", "+", "1", ")">>,
                     <<"W", "e", "l", "c", "o", "m", "e", " ", "p", "r", "o", "g", "r", "a", "m", "m", "e", " ", "/", " ", "M", "o", "v", "i", "e", " ", "P", "r", "e", "m", "i", "e", "r", "e">>,
                     <<"h", "t", "t", "p", "s", ":", "/", "/", "w", "w", "w", ".", "y", "o", "u", "t", "u", "b", "e", ".", "c", "o", "m", "/", "l", "i", "v", "e", "/", "k", "b", "T", "I", "S", "n", "z", "S", "o", "e", "A", "?", "f", "e", "a", "t", "u", "r", "e", "=", "s", "h", "a", "r", "e", "d">>,
                     FALSE) >>],
    [day |-> <<"D", "a", "y", " ", "2">>,
     date |-> <<"T", "H", "U", "R", "S", "D", "A", "Y", ",", " ", "2", "8", "T", "H", " ", "D", "E", "C", "E", "M", "B", "E", "R", " ", "2", "0", "2", "3">>,
     events |-> <<
         SampleEvent(<<"5", ":", "3", "0", "a", "m", " ", "-", " ", "7", ":", "0", "0", "a", "m", " ", "(", "G", "M", "T", " ", "+", "1", ")">>,
                     <<"P", ".", "U", ".", "S", ".", "H">>,
                     <<"h", "t", "t", "p", "s", ":", "/", "/", "w", "w", "w", ".", "y", "o", "u", "t", "u", "b", "e", ".", "c", "o", "m", "/", "l", "i", "v", "e", "/", "r", "n", "C", "S", "G", "M", "t", "x", "h", "S", "c", "?", "f", "e", "a", "t", "u", "r", "e", "=", "s", "h", "a", "r", "e", "d">>,
                     FALSE),
         SampleEvent(<<"9", ":", "3", "0", "p", "m", " ", "-", " ", "1", "2", ":", "0", "0", "p", "m", " ", "(", "G", "M", "T", " ", "+", "1", ")">>,
                     <<"B", "i", "b", "l", "e", " ", "S", "t", "u", "d", "y">>,
                     <<"h", "t", "t", "p", "s", ":", "/", "/", "w", "w", "w", ".", "y", "o", "u", "t", "u", "b", "e", ".", "c", "o", "m", "/", "l", "i", "v", "e", "/", "d", "E", "3", "P", "m", "H", "2", "-", "J", "H", "g", "?", "f", "e", "a", "t", "u", "r", "e", "=", "s", "h", "a", "r", "e", "d">>,
                     TRUE) >>],
    [day |-> <<"D", "a", "y", " ", "3">>,
     date |-> <<"F", "R", "I", "D", "A", "Y", ",", " ", "2", "9", "T", "H", " ", "D", "E", "C", "E", "M", "B", "E", "R", " ", "2", "0", "2", "3">>,
     events |-> <<
         SampleEvent(<<"5", ":", "3", "0", " ", "-", " ", "7", ":", "0", "0", " ", "(", "G", "M", "T", " ", "+", "1", ")">>,
                     <<"P", ".", "U", ".", "S", ".", "H">>,
                     <<"h", "t", "t", "p", "s", ":", "/", "/", "w", "w", "w", ".", "y", "o", "u", "t", "u", "b", "e", ".", "c", "o", "m", "/", "l", "i", "v", "e", "/", "S", "r", "5", "S", "v", "T", "B", "s", "z", "l", "I", "?", "f", "e", "a", "t", "u", "r", "e", "=", "s", "h", "a", "r", "e", "d">>,
                     FALSE),
         SampleEvent(<<"0", "9", ":", "3", "0", "a", "m", " ", "-", " ", "1", "2", ":", "0", "0", "p", "m", " ", "(", "G", "M", "T", " ", "+", "1", ")">>,
                     <<"S", "y", "m", "p", "o", "s", "i", "u", "m", " ", "-", " ", "A", "S", "P", "I", "R", "E">>,
                     <<"h", "t", "t", "p", "s", ":", "/", "/", "w", "w", "w", ".", "y", "o", "u", "t", "u", "b", "e", ".", "c", "o", "m", "/", "l", "i", "v", "e", "/", "Z", "r", "H", "C", "G", "-", "1", "K", "U", "j", "o", "?", "f", "e", "a", "t", "u", "r", "e", "=", "s", "h", "a", "r", "e", "d">>,
                     TRUE) >>] >>

SampleEventRecord(day_id, event_data) ==
    LET e1 == NewEvent(generate_event_id(day_id, event_data.name),
                       event_data.time, event_data.name, event_data.link)
    IN  IF event_data.hasOutline THEN Put(e1, "hasOutline", TRUE) ELSE e1

SampleDayRecord(day_data) ==
    LET day_id == generate_day_id(day_data.day)
    IN  DayRecord(day_id, day_data.day, day_data.date,
                  [i \in DOMAIN day_data.events |->
                      SampleEventRecord(day_id, day_data.events[i])])

sample_schedule == [i \in DOMAIN sample_days |-> SampleDayRecord(sample_days[i])]

initialize_schedule_core(d) == Outcome("ok", sample_schedule, d)

(***************************************************************************)
(* The requests the model sends.                                           *)
(***************************************************************************)
NoValue == <<>>

\* two labels with the same id: the first ends in digits, the second has
\* none at its end and is reduced to its letters and digits
DayLabels == {<<"D", "1">>, <<"1", "!">>}
DateLabels == {<<"W">>, <<"T">>}
\* the day ids that requests name: absent until such a day is added
DayIdInputs == {generate_day_id(l) : l \in DayLabels}
\* the day ids that requests about events name
EventDayIds == {<<"1">>}
\* two names with the same slug, and a third
EventNames == {<<"A", " ", "b">>, <<"a", "-", "b">>, <<"c">>}
EventIdInputs == {generate_event_id(<<"1">>, n) : n \in EventNames}
Times == {<<"9">>}
FileNames == {<<"f">>}
\* the link a request sends with a name: the third name comes with one
LinkOf(name) == IF name = <<"c">> THEN <<"h">> ELSE NoValue
\* the hasOutline and the file of the form of upload_event_with_file
UploadForms ==
    {[hasOutline |-> TRUE, upload |-> <<"f">>],
     [hasOutline |-> TRUE, upload |-> NoValue],
     [hasOutline |-> FALSE, upload |-> <<"f">>],
     [hasOutline |-> FALSE, upload |-> NoValue]}
\* the hasOutline and the outlineFile of the body of update_event;
\* outlineFile is a path of the client's own choice
UpdateBodies ==
    {[hasOutline |-> TRUE, outlineFile |-> NoValue],
     [hasOutline |-> FALSE, outlineFile |-> NoValue],
     [hasOutline |-> FALSE, outlineFile |-> <<"/", "x", "/", "f">>]}

Procs == 1..NumProcs

\* the variables of the concurrent requests and of get_schedule
others == <<pc, req, loaded, result, lastWriter, ret>>

(***************************************************************************)
(* Requests served one at a time: a handler runs from read_schedule to its *)
(* response as one step.  The handlers are modelled for a store that holds *)
(* a list or no file yet, which is all they ever leave behind.             *)
(***************************************************************************)
\* the response, the store and the directories a handler that ends with
\* out leaves behind: write_schedule is reached only when nothing was raised
After(out) ==
    [resp |-> out.status,
     file |-> IF out.status = "ok" THEN write_schedule(out.schedule)
              ELSE initialize_data_file(file),
     dirs |-> out.dirs]

Serve(op, out) ==
    /\ file.kind \in {"missing", "list"}
    /\ lastOp' = op
    /\ resp' = After(out).resp
    /\ dirs' = After(out).dirs
    /\ file' = After(out).file
    /\ UNCHANGED others

add_day(day, date) ==
    /\ Len(Persisted) < MaxDays
    /\ Serve("add_day",
             add_day_core(Persisted, dirs, day, date))

\* the day an add of an event goes to has room for it
HasRoom(day_id) ==
    LET di == FindDay(Persisted, day_id)
    IN  IF di = 0 THEN TRUE ELSE Len(Persisted[di].events) < MaxEvents

add_event(day_id, time, name, link, hasOutline) ==
    /\ HasRoom(day_id)
    /\ Serve("add_event",
             add_event_core(Persisted, dirs, day_id, time, name, link, hasOutline))

upload_event_with_file(day_id, time, name, link, hasOutline, upload) ==
    /\ HasRoom(day_id)
    /\ Serve("upload_event_with_file",
             upload_event_with_file_core(Persisted, dirs, day_id, time, name, link,
                                         hasOutline, upload))

update_event(day_id, event_id, time, name, link, hasOutline, outlineFile) ==
    Serve("update_event",
          update_event_core(Persisted, dirs, day_id, event_id, time, name, link,
                            hasOutline, outlineFile))

upload_outline(day_id, event_id, upload) ==
    Serve("upload_outline",
          upload_outline_core(Persisted, dirs, day_id, event_id, upload))

delete_event(day_id, event_id) ==
    Serve("delete_event",
          delete_event_core(Persisted, dirs, day_id, event_id))

delete_day(day_id) ==
    Serve("delete_day",
          delete_day_core(Persisted, dirs, day_id))

\* initialize_schedule does not read the store
initialize_schedule ==
    Serve("initialize_schedule",
          initialize_schedule_core(dirs))

Init ==
    /\ file = FileOf("missing", <<>>)
    /\ dirs = <<>>
    /\ lastOp = "none"
    /\ resp = "none"
    /\ pc = [p \in Procs |-> "idle"]
    /\ req = [p \in Procs |-> [day |-> NoValue, date |-> NoValue]]
    /\ loaded = [p \in Procs |-> <<>>]
    /\ result = [p \in Procs |-> "none"]
    /\ lastWriter = 0
    /\ ret = [raised |-> FALSE, isList |-> TRUE, value |-> <<>>]

Next ==
    \/ \E day \in DayLabels, date \in DateLabels : add_day(day, date)
    \/ \E day_id \in EventDayIds, time \in Times, name \in EventNames,
          hasOutline \in BOOLEAN :
           add_event(day_id, time, name, LinkOf(name), hasOutline)
    \/ \E day_id \in EventDayIds, time \in Times, name \in EventNames, b \in UploadForms :
           upload_event_with_file(day_id, time, name, LinkOf(name), b.hasOutline, b.upload)
    \/ \E day_id \in EventDayIds, event_id \in EventIdInputs, time \in Times,
          name \in EventNames, b \in UpdateBodies :
           update_event(day_id, event_id, time, name, LinkOf(name), b.hasOutline,
                        b.outlineFile)
    \/ \E day_id \in EventDayIds, event_id \in EventIdInputs, upload \in FileNames :
           upload_outline(day_id, event_id, upload)
    \/ \E day_id \in EventDayIds, event_id \in EventIdInputs :
           delete_event(day_id, event_id)
    \/ \E day_id \in DayIdInputs : delete_day(day_id)
    \/ initialize_schedule

Spec == Init /\ [][Next]_vars

(***************************************************************************)
(* get_schedule on a store in any condition.                               *)
(***************************************************************************)
\* the schedules a store may hold: up to MaxDays days, each without events
\* or with one
StoredEvents == {<<>>, <<[id |-> <<"1", "-", "c">>, time |-> <<"9">>, name |-> <<"c">>]>>}

StoredDays ==
    {DayRecord(generate_day_id(l), l, dt, es) :
        l \in DayLabels, dt \in DateLabels, es \in StoredEvents}

StoredSchedules == UNION {[1..n -> StoredDays] : n \in 0..MaxDays}

StoredFiles ==
    {FileOf(k, <<>>) : k \in {"missing", "unreadable", "undecodable",
                              "empty", "malformed", "nonlist"}}
    \cup {FileOf("list", s) : s \in StoredSchedules}

\* GET /api/schedule: the response is what read_schedule returns, or a 500
\* when it raises
get_schedule ==
    /\ ret' = read_schedule(file)
    /\ resp' = IF read_schedule(file).raised THEN "Error" ELSE "ok"
    /\ lastOp' = "get_schedule"
    /\ file' = initialize_data_file(file)
    /\ UNCHANGED <<dirs, pc, req, loaded, result, lastWriter>>

InitRead ==
    /\ file \in StoredFiles
    /\ dirs = <<>>
    /\ lastOp = "none"
    /\ resp = "none"
    /\ pc = [p \in Procs |-> "idle"]
    /\ req = [p \in Procs |-> [day |-> NoValue, date |-> NoValue]]
    /\ loaded = [p \in Procs |-> <<>>]
    /\ result = [p \in Procs |-> "none"]
    /\ lastWriter = 0
    /\ ret = [raised |-> FALSE, isList |-> TRUE, value |-> <<>>]

NextRead == get_schedule

SpecRead == InitRead /\ [][NextRead]_vars

(***************************************************************************)
(* Concurrent add_day requests.  add_day is a plain def, which the         *)
(* framework runs on a thread pool, and nothing locks the store: the read  *)
(* of the file and the write of the file are separate steps of a request.  *)
(***************************************************************************)
\* line 128: the request loads the schedule
AddDayRead(p, day, date) ==
    /\ pc[p] = "idle"
    /\ file.kind \in {"missing", "list"}
    /\ req' = [req EXCEPT ![p] = [day |-> day, date |-> date]]
    /\ loaded' = [loaded EXCEPT ![p] = Persisted]
    /\ file' = initialize_data_file(file)
    /\ pc' = [pc EXCEPT ![p] = "loaded"]
    /\ UNCHANGED <<dirs, lastOp, resp, result, lastWriter, ret>>

\* the write of a request that appends its day to the stored schedule
\* instead of writing its own copy
AddDayWrite_OnStored(p) ==
    /\ pc[p] = "loaded"
    /\ LET out == add_day_core(Persisted, dirs, req[p].day, req[p].date) IN
       /\ result' = [result EXCEPT ![p] = out.status]
       /\ file' = IF out.status = "ok" THEN write_schedule(out.schedule) ELSE file
       /\ lastWriter' = IF out.status = "ok" THEN p ELSE lastWriter
    /\ pc' = [pc EXCEPT ![p] = "done"]
    /\ UNCHANGED <<dirs, lastOp, resp, req, loaded, ret>>

\* lines 130-147: the check and the append on the loaded copy, the write
AddDayWrite(p) ==
    /\ pc[p] = "loaded"
    /\ LET out == add_day_core(loaded[p], dirs, req[p].day, req[p].date) IN
       /\ result' = [result EXCEPT ![p] = out.status]
       /\ file' = IF out.status = "ok" THEN write_schedule(out.schedule) ELSE file
       /\ lastWriter' = IF out.status = "ok" THEN p ELSE lastWriter
    /\ pc' = [pc EXCEPT ![p] = "done"]
    /\ UNCHANGED <<dirs, lastOp, resp, req, loaded, ret>>

NextConc ==
    \/ \E p \in Procs, day \in DayLabels, date \in DateLabels : AddDayRead(p, day, date)
    \/ \E p \in Procs : AddDayWrite(p)

SpecConc == Init /\ [][NextConc]_vars

(***************************************************************************)
(* Properties                                                              *)
(***************************************************************************)
DaysOf(schedule) == {schedule[i] : i \in DOMAIN schedule}

\* C1: with requests served one at a time from an empty store, no two Day
\* records of the persisted schedule have the same day label and no two
\* have the same date label.
C1_UniqueDayAndDate ==
    \A i, j \in DOMAIN Persisted :
        i # j => /\ Persisted[i].day # Persisted[j].day
                 /\ Persisted[i].date # Persisted[j].date

\* add_day has just put a second day next to another one
C1_Witness ==
    /\ lastOp = "add_day"
    /\ resp = "ok"
    /\ Len(Persisted) >= 2

NamesUnique(events) ==
    \A i, j \in DOMAIN events : i # j => events[i].name # events[j].name

\* the day a request about day_id acts on holds an event called name
NameTaken(day_id, name) ==
    /\ FindDay(Persisted, day_id) # 0
    /\ NameUsed(Persisted[FindDay(Persisted, day_id)].events, name)

\* the day holds an event called name other than its first event with event_id
NameTakenByOther(day_id, event_id, name) ==
    /\ FindDay(Persisted, day_id) # 0
    /\ LET events == Persisted[FindDay(Persisted, day_id)].events
           ei == FindEvent(events, event_id)
       IN  /\ ei # 0
           /\ \E k \in DOMAIN events : k # ei /\ events[k].name = name

\* the handler answered Conflict and left the store and the directories alone
Rejected(out) ==
    /\ After(out).resp = "Conflict"
    /\ ScheduleIn(After(out).file) = Persisted
    /\ After(out).dirs = dirs

C2_RejectsTakenName ==
    /\ \A day_id \in EventDayIds, time \in Times, name \in EventNames, b \in UploadForms :
          NameTaken(day_id, name) =>
              Rejected(add_event_core(Persisted, dirs, day_id, time, name,
                                      LinkOf(name), b.hasOutline))
    /\ \A day_id \in EventDayIds, time \in Times, name \in EventNames, b \in UploadForms :
          NameTaken(day_id, name) =>
              Rejected(upload_event_with_file_core(Persisted, dirs, day_id, time, name,
                                                   LinkOf(name), b.hasOutline, b.upload))
    /\ \A day_id \in EventDayIds, event_id \in EventIdInputs, time \in Times,
          name \in EventNames, b \in UpdateBodies :
          NameTakenByOther(day_id, event_id, name) =>
              Rejected(update_event_core(Persisted, dirs, day_id, event_id, time, name,
                                         LinkOf(name), b.hasOutline, b.outlineFile))

\* C2: with requests served one at a time from an empty store, no two
\* events of one Day record have the same name; in every state reached,
\* add_event and upload_event_with_file answer Conflict to a name the
\* target day already uses, and update_event to a new name another event
\* of the day uses, and they change nothing.
C2_UniqueEventNames ==
    /\ \A i \in DOMAIN Persisted : NamesUnique(Persisted[i].events)
    /\ C2_RejectsTakenName

\* a rename to a name another event of the day has was just refused, in a
\* day holding two events
C2_Witness ==
    /\ lastOp = "update_event"
    /\ resp = "Conflict"
    /\ \E i \in DOMAIN Persisted : Len(Persisted[i].events) = 2

\* C3: add_day fails with Conflict exactly when a stored day has the same
\* day label or the same date label, and then the persisted schedule is
\* the one before the request; otherwise it succeeds and the persisted
\* schedule is the one before with one Day record appended at its end, with
\* the id generate_day_id gives the label and no events.
C3_AddDay ==
    \A day \in DayLabels, date \in DateLabels :
        LET a == After(add_day_core(Persisted, dirs, day, date))
            duplicate == \E r \in DaysOf(Persisted) : r.day = day \/ r.date = date
            after == ScheduleIn(a.file)
        IN  /\ a.resp = "Conflict" <=> duplicate
            /\ duplicate => after = Persisted
            /\ ~duplicate =>
                 /\ a.resp = "ok"
                 /\ Len(after) = Len(Persisted) + 1
                 /\ \A i \in DOMAIN Persisted : after[i] = Persisted[i]
                 /\ after[Len(after)] =
                      [id |-> generate_day_id(day), day |-> day, date |-> date,
                       events |-> <<>>]

\* add_day was just refused on a store that holds a day
C3_Witness ==
    /\ lastOp = "add_day"
    /\ resp = "Conflict"
    /\ Len(Persisted) >= 1

\* update_event(day_id, event_id, ...) finds its event, and name is not the
\* name the event has
Renames(day_id, event_id, name) ==
    /\ FindDay(Persisted, day_id) # 0
    /\ LET events == Persisted[FindDay(Persisted, day_id)].events
       IN  /\ FindEvent(events, event_id) # 0
           /\ events[FindEvent(events, event_id)].name # name

\* the stored path is /uploads/<id>/<file name>
ReferencesId(path, id) == path = OutlinePath(id, LastSegment(path))

\* The statement of C4 as given: whenever update_event succeeds with a name
\* other than the stored one, the stored id afterwards differs from the id
\* before, and if an attachment directory existed under the old id then the
\* attachments are under the directory of the new id, no directory remains
\* under the old id and the stored outlineFile references the new id.
C4_RenameAlwaysMoves ==
    \A day_id \in EventDayIds, event_id \in EventIdInputs, time \in Times,
       name \in EventNames, b \in UpdateBodies :
        LET di == FindDay(Persisted, day_id)
            ei == FindEvent(Persisted[di].events, event_id)
            out == update_event_core(Persisted, dirs, day_id, event_id, time, name,
                                     LinkOf(name), b.hasOutline, b.outlineFile)
            a == After(out)
            new == ScheduleIn(a.file)[di].events[ei]
        IN  Renames(day_id, event_id, name) /\ a.resp = "ok" =>
              /\ new.id # event_id
              /\ DirExists(dirs, event_id) =>
                   /\ DirExists(a.dirs, new.id)
                   /\ dirs[event_id] \subseteq a.dirs[new.id]
                   /\ ~DirExists(a.dirs, event_id)
                   /\ Has(new, "outlineFile")
                   /\ ReferencesId(new.outlineFile, new.id)

\* C4, amended: whenever update_event succeeds with a name other than the
\* stored one, the stored id afterwards is generate_event_id(day id, new
\* name), which differs from the id before exactly when the two names have
\* different slugs; if the id changed, the new record has an outlineFile
\* and an attachment directory existed under the old id, then the
\* attachments are under the directory of the new id, no directory remains
\* under the old id and the stored outlineFile is /uploads/<new id>/<file
\* name>; in every other case the directories are as they were.
C4_RenameMoves ==
    \A day_id \in EventDayIds, event_id \in EventIdInputs, time \in Times,
       name \in EventNames, b \in UpdateBodies :
        LET di == FindDay(Persisted, day_id)
            ei == FindEvent(Persisted[di].events, event_id)
            out == update_event_core(Persisted, dirs, day_id, event_id, time, name,
                                     LinkOf(name), b.hasOutline, b.outlineFile)
            a == After(out)
            old == Persisted[di].events[ei]
            new == ScheduleIn(a.file)[di].events[ei]
        IN  Renames(day_id, event_id, name) /\ a.resp = "ok" =>
              /\ new.name = name
              /\ new.id = generate_event_id(day_id, name)
              /\ new.id # event_id <=> event_slug(name) # event_slug(old.name)
              /\ IF new.id # event_id /\ Has(new, "outlineFile") /\ DirExists(dirs, event_id)
                 THEN /\ DirExists(a.dirs, new.id)
                      /\ dirs[event_id] \subseteq a.dirs[new.id]
                      /\ ~DirExists(a.dirs, event_id)
                      /\ ReferencesId(new.outlineFile, new.id)
                 ELSE a.dirs = dirs

\* a rename that changes the id of an event with an attachment directory
\* and keeps its outlineFile succeeds in this state
C4_Witness ==
    \E day_id \in EventDayIds, event_id \in EventIdInputs, time \in Times,
       name \in EventNames, b \in UpdateBodies :
        LET di == FindDay(Persisted, day_id)
            ei == FindEvent(Persisted[di].events, event_id)
            out == update_event_core(Persisted, dirs, day_id, event_id, time, name,
                                     LinkOf(name), b.hasOutline, b.outlineFile)
        IN  /\ Renames(day_id, event_id, name)
            /\ out.status = "ok"
            /\ DirExists(dirs, event_id)
            /\ ~DirExists(out.dirs, event_id)
            /\ DirExists(out.dirs, generate_event_id(day_id, name))

\* C5: delete_day with an id that is in the schedule removes one Day record
\* with that id and leaves the other records and their order as they were,
\* and afterwards no attachment directory is named by the id of an event
\* the day held; with an id that is not in the schedule it answers NotFound
\* and changes neither the schedule nor the directories.
C5_DeleteDay ==
    \A day_id \in DayIdInputs :
        LET a == After(delete_day_core(Persisted, dirs, day_id))
            after == ScheduleIn(a.file)
        IN  IF \E r \in DaysOf(Persisted) : r.id = day_id
            THEN /\ a.resp = "ok"
                 /\ \E k \in DOMAIN Persisted :
                      /\ Persisted[k].id = day_id
                      /\ Len(after) = Len(Persisted) - 1
                      /\ \A i \in 1..(k - 1) : after[i] = Persisted[i]
                      /\ \A i \in k..Len(after) : after[i] = Persisted[i + 1]
                      /\ \A e \in EventIds(Persisted[k].events) : ~DirExists(a.dirs, e)
            ELSE /\ a.resp = "NotFound"
                 /\ after = Persisted
                 /\ a.dirs = dirs

\* delete_day acts on a day that is not the only one and that holds an event
\* with an attachment directory
C5_Witness ==
    \E day_id \in DayIdInputs :
        /\ FindDay(Persisted, day_id) # 0
        /\ Len(Persisted) >= 2
        /\ \E e \in EventIds(Persisted[FindDay(Persisted, day_id)].events) :
               /\ DirExists(dirs, e)
               /\ ~DirExists(delete_day_core(Persisted, dirs, day_id).dirs, e)

\* C7: with requests served one at a time, the id of every stored event is
\* generate_event_id(id of the day that holds it, its name).
C7_EventIdFromName ==
    \A i \in DOMAIN Persisted :
        \A k \in DOMAIN Persisted[i].events :
            Persisted[i].events[k].id =
                generate_event_id(Persisted[i].id, Persisted[i].events[k].name)

\* update_event has just answered ok in a day that holds two events
C7_Witness ==
    /\ lastOp = "update_event"
    /\ resp = "ok"
    /\ \E i \in DOMAIN Persisted : Len(Persisted[i].events) = 2

\* the first day with day_id does not hold an event with event_id
EventAbsent(day_id, event_id) ==
    \/ FindDay(Persisted, day_id) = 0
    \/ FindEvent(Persisted[FindDay(Persisted, day_id)].events, event_id) = 0

\* the handler answered NotFound and left the store and the directories alone
AnswersNotFound(out) ==
    /\ After(out).resp = "NotFound"
    /\ ScheduleIn(After(out).file) = Persisted
    /\ After(out).dirs = dirs

\* every handler but upload_outline answers NotFound to an id that is not
\* in the schedule, and changes nothing
AbsentIsNotFoundElsewhere ==
    /\ \A day_id \in EventDayIds, time \in Times, name \in EventNames, b \in UploadForms :
          FindDay(Persisted, day_id) = 0 =>
              AnswersNotFound(add_event_core(Persisted, dirs, day_id, time, name,
                                             LinkOf(name), b.hasOutline))
    /\ \A day_id \in EventDayIds, time \in Times, name \in EventNames, b \in UploadForms :
          FindDay(Persisted, day_id) = 0 =>
              AnswersNotFound(upload_event_with_file_core(Persisted, dirs, day_id, time,
                                                          name, LinkOf(name), b.hasOutline,
                                                          b.upload))
    /\ \A day_id \in EventDayIds, event_id \in EventIdInputs, time \in Times,
          name \in EventNames, b \in UpdateBodies :
          EventAbsent(day_id, event_id) =>
              AnswersNotFound(update_event_core(Persisted, dirs, day_id, event_id, time,
                                                name, LinkOf(name), b.hasOutline, b.outlineFile))
    /\ \A day_id \in EventDayIds, event_id \in EventIdInputs :
          EventAbsent(day_id, event_id) =>
              AnswersNotFound(delete_event_core(Persisted, dirs, day_id, event_id))
    /\ \A day_id \in DayIdInputs :
          FindDay(Persisted, day_id) = 0 =>
              AnswersNotFound(delete_day_core(Persisted, dirs, day_id))

\* C8: a request that names a day id or an event id that is not in the
\* schedule ends with NotFound and changes neither the persisted schedule
\* nor the attachment directories, for add_event, upload_event_with_file,
\* update_event, upload_outline, delete_event and delete_day.
C8_AbsentIsNotFound ==
    /\ AbsentIsNotFoundElsewhere
    /\ \A day_id \in EventDayIds, event_id \in EventIdInputs, upload \in FileNames :
          EventAbsent(day_id, event_id) =>
              AnswersNotFound(upload_outline_core(Persisted, dirs, day_id, event_id, upload))

\* C10: with requests served one at a time, no two stored events have the
\* same id, in one day or in two.
C10_UniqueEventIds ==
    \A i, j \in DOMAIN Persisted :
        \A k \in DOMAIN Persisted[i].events, l \in DOMAIN Persisted[j].events :
            <<i, k>> # <<j, l>> => Persisted[i].events[k].id # Persisted[j].events[l].id

\* the day a finished add_day request of p asked for
DayOf(p) == DayRecord(generate_day_id(req[p].day), req[p].day, req[p].date, <<>>)

Succeeded(p) == pc[p] = "done" /\ result[p] = "ok"

\* C6: concurrent add_day requests are not isolated: whatever the
\* interleaving, the persisted schedule is the copy the last writer loaded
\* plus its own day, so a day another request wrote after that copy was
\* loaded is gone although that request answered ok.
C6_LastWriteWins ==
    lastWriter # 0 =>
        /\ Succeeded(lastWriter)
        /\ Persisted = Append(loaded[lastWriter], DayOf(lastWriter))
        /\ \A p \in Procs :
             /\ Succeeded(p)
             /\ DayOf(p) # DayOf(lastWriter)
             /\ DayOf(p) \notin DaysOf(loaded[lastWriter])
             => DayOf(p) \notin DaysOf(Persisted)

\* two requests with different labels and different dates both answered ok
\* and the persisted schedule holds the day of one of them only
C6_Witness ==
    \E p, q \in Procs :
        /\ p # q
        /\ Succeeded(p) /\ Succeeded(q)
        /\ req[p].day # req[q].day /\ req[p].date # req[q].date
        /\ DayOf(q) \in DaysOf(Persisted)
        /\ DayOf(p) \notin DaysOf(Persisted)

\* C9: read_schedule never ends in an error: whatever the backing file is,
\* it returns a sequence, and the empty one when the file is missing,
\* unreadable or does not hold a well-formed schedule document.
C9_ReadNeverFails ==
    lastOp = "get_schedule" =>
        /\ ~ret.raised
        /\ ret.isList
        /\ file.kind # "list" => ret.value = <<>>


(***************************************************************************)
(* Selecting a stored day by its id.                                       *)
(***************************************************************************)
DayIdsUnique(schedule) ==
    \A i, j \in DOMAIN schedule : i # j => schedule[i].id # schedule[j].id

\* add_event with the id of the i-th stored day, when answered ok, appends
\* one event to that day and leaves the other days as they were
AddEventSelects(i) ==
    \A time \in Times, name \in EventNames, hasOutline \in BOOLEAN :
        LET out == add_event_core(Persisted, dirs, Persisted[i].id, time, name,
                                  LinkOf(name), hasOutline)
        IN  out.status = "ok" =>
                /\ Len(out.schedule[i].events) = Len(Persisted[i].events) + 1
                /\ \A j \in DOMAIN Persisted :
                       j # i => out.schedule[j] = Persisted[j]

\* delete_day with the id of the i-th stored day removes that day and no other
DeleteDaySelects(i) ==
    LET out == delete_day_core(Persisted, dirs, Persisted[i].id)
    IN  /\ out.status = "ok"
        /\ out.schedule = RemoveAt(Persisted, i)

\* C11: with requests served one at a time, no two stored days have the
\* same id, so that every stored day is the one its id selects: add_event
\* with its id appends to it and delete_day with its id removes it and no
\* other.
C11_UniqueDayIds ==
    /\ DayIdsUnique(Persisted)
    /\ \A i \in DOMAIN Persisted : AddEventSelects(i) /\ DeleteDaySelects(i)

(***************************************************************************)
(* Stored attachments.                                                     *)
(***************************************************************************)
\* the event says it has an outline, its outlineFile is
\* /uploads/<its id>/<a file name> and uploads/<its id> exists in d
Attached(e, d) ==
    /\ Has(e, "hasOutline")
    /\ e.hasOutline
    /\ LastSegment(e.outlineFile) # <<>>
    /\ e.outlineFile = OutlinePath(e.id, LastSegment(e.outlineFile))
    /\ DirExists(d, e.id)

\* C12: with requests served one at a time, every stored event that has an
\* outlineFile has hasOutline true, an outlineFile of the form
\* /uploads/<the event's id>/<file name>, and an existing attachment
\* directory uploads/<the event's id>.
C12_OutlineFileAttached ==
    \A i \in DOMAIN Persisted :
        \A k \in DOMAIN Persisted[i].events :
            Has(Persisted[i].events[k], "outlineFile") =>
                Attached(Persisted[i].events[k], dirs)
====
